---- MODULE Spec2Model ----
(***************************************************************************)
(* A model of dwm-msg (src/dwm-msg.c), the command line client of the dwm  *)
(* IPC protocol.  The client is modelled at the granularity of its system  *)
(* calls: every read(2) and write(2) on the socket is one step whose       *)
(* outcome (a short count, end of file, an error with its errno) is chosen *)
(* by the environment.  The peer (dwm) is the environment too.             *)
(*                                                                         *)
(* Bytes are integers 0..255.  A C string is the sequence of its           *)
(* characters, each a one-character TLA+ string.                           *)
(***************************************************************************)
EXTENDS Integers, Sequences, FiniteSets, TLC

\* ------------------------------------------------------------------ bounds

\* Longest payload the peer puts into one inbound message.
MaxPayload == 2
\* Most event messages the peer pushes during one invocation.
MaxEvents == 1
\* Most positional arguments on the command line.
MaxArgs == 3
\* Longest argument string of the argument specification.
MaxArgLen == 5
\* Most messages queued on the stream in the stream specification.
MaxMsgs == 3
\* Most faults during one invocation: a transient failure (EINTR, EAGAIN) of
\* read(2) or write(2), a failed write, a malformed message, the peer closing.
MaxFaults == 1

\* ------------------------------------------------------- program constants

IPC_MAGIC_LEN == 7
\* "DWM-IPC" in ASCII.
IPC_MAGIC == <<68, 87, 77, 45, 73, 80, 67>>
IPC_MAGIC_ARR == <<68, 87, 77, 45, 73, 80, 67>>

IPC_TYPE_RUN_COMMAND == 0
IPC_TYPE_GET_MONITORS == 1
IPC_TYPE_GET_TAGS == 2
IPC_TYPE_GET_LAYOUTS == 3
IPC_TYPE_GET_DWM_CLIENT == 4
IPC_TYPE_SUBSCRIBE == 5
IPC_TYPE_EVENT == 6

\* sizeof(dwm_ipc_header_t): the struct is packed, 7 + 4 + 1 bytes.
HeaderSize == IPC_MAGIC_LEN + 4 + 1

EXIT_FAILURE == 1

\* errno values the code tests for, and one it does not (a genuine failure).
EINTR == "EINTR"
EAGAIN == "EAGAIN"
\* On Linux EWOULDBLOCK is the same number as EAGAIN.
EWOULDBLOCK == EAGAIN
ECONNRESET == "ECONNRESET"
EPIPE == "EPIPE"

\* ---------------------------------------------------------- byte helpers

Take(s, n) == SubSeq(s, 1, n)
Drop(s, n) == SubSeq(s, n + 1, Len(s))

\* memcpy of a uint32_t into 4 bytes, native (little-endian) order.  (The
\* sizes of the model stay far below 2^31, the largest integer TLC computes
\* with, so the conversion to uint32_t leaves them as they are.)
U32Bytes(n) ==
  << n % 256, (n \div 256) % 256, (n \div 65536) % 256, (n \div 16777216) % 256 >>

\* memcpy of 4 bytes into a uint32_t, native (little-endian) order.
U32Value(b) == b[1] + 256 * b[2] + 65536 * b[3] + 16777216 * b[4]

\* A store of chunk into a buffer at byte offset off (buf + off).
StoreAt(buf, off, chunk) ==
  Take(buf, off) \o chunk \o Drop(buf, off + Len(chunk))

\* A seeded fault: the bytes of a read are stored in front of the bytes read
\* before instead of behind them.
ReadIntoFront(buf, rb, chunk) == chunk \o buf

\* read(sock_fd, buf + read_bytes, ...) returned the bytes of chunk: they are
\* stored behind the read_bytes bytes read before.
ReadInto(buf, rb, chunk) == StoreAt(buf, rb, chunk)

\* ------------------------------------------------------- framing (encode)

\* A seeded fault: the header declares no payload.
HeaderBytesNoSize(msg_type, msg_size) ==
  IPC_MAGIC_ARR \o U32Bytes(0) \o << msg_type % 256 >>

\* dwm_ipc_header_t header = {.magic = IPC_MAGIC_ARR, .size = msg_size,
\* .type = msg_type}; the type is stored in a uint8_t.
HeaderBytes(msg_type, msg_size) ==
  IPC_MAGIC_ARR \o U32Bytes(msg_size) \o << msg_type % 256 >>

\* The buffer send_message hands to write_socket: the header, then
\* header.size bytes of msg.
SendMessageBytes(msg_type, msg_size, msg) ==
  StoreAt(HeaderBytes(msg_type, msg_size), HeaderSize,
          Take(msg, U32Value(U32Bytes(msg_size))))

\* ------------------------------------------------------- framing (decode)

\* A seeded fault: the comparison stops one byte short of the magic.
MagicMatchesPrefix(header) ==
  Take(header, IPC_MAGIC_LEN - 1) = Take(IPC_MAGIC, IPC_MAGIC_LEN - 1)

\* memcmp(walk, IPC_MAGIC, IPC_MAGIC_LEN) == 0
MagicMatches(header) == Take(header, IPC_MAGIC_LEN) = IPC_MAGIC

\* A seeded fault: the size is taken from one byte, the second of the four.
HeaderSizeFieldOneByte(header) == header[IPC_MAGIC_LEN + 2]

\* memcpy(reply_size, walk, sizeof(uint32_t)) at offset IPC_MAGIC_LEN
HeaderSizeField(header) == U32Value(SubSeq(header, IPC_MAGIC_LEN + 1, IPC_MAGIC_LEN + 4))

\* A seeded fault: the type is taken from the last byte of the size.
HeaderTypeFieldInSize(header) == header[IPC_MAGIC_LEN + 4]

\* memcpy(msg_type, walk, sizeof(uint8_t)) at offset IPC_MAGIC_LEN + 4
HeaderTypeField(header) == header[IPC_MAGIC_LEN + 5]

\* ---------------------------------------------------------- C strings

\* The character code of a char (ASCII), for the characters the model uses.
Ord(c) ==
  CASE
     c = "\"" -> 34
  [] c = "," -> 44
  [] c = "-" -> 45
  [] c = "." -> 46
  [] c = "0" -> 48
  [] c = "1" -> 49
  [] c = "2" -> 50
  [] c = "3" -> 51
  [] c = "4" -> 52
  [] c = "5" -> 53
  [] c = "6" -> 54
  [] c = "7" -> 55
  [] c = "8" -> 56
  [] c = "9" -> 57
  [] c = ":" -> 58
  [] c = "[" -> 91
  [] c = "]" -> 93
  [] c = "_" -> 95
  [] c = "a" -> 97
  [] c = "b" -> 98
  [] c = "c" -> 99
  [] c = "d" -> 100
  [] c = "e" -> 101
  [] c = "g" -> 103
  [] c = "i" -> 105
  [] c = "l" -> 108
  [] c = "m" -> 109
  [] c = "n" -> 110
  [] c = "o" -> 111
  [] c = "r" -> 114
  [] c = "s" -> 115
  [] c = "t" -> 116
  [] c = "u" -> 117
  [] c = "v" -> 118
  [] c = "w" -> 119
  [] c = "{" -> 123
  [] c = "}" -> 125

\* The bytes of a C string, without its terminating NUL.
StrBytes(s) == [i \in 1..Len(s) |-> Ord(s[i])]

\* A string literal as the sequence of its characters.
Lit_command == <<"c","o","m","m","a","n","d">>
Lit_args == <<"a","r","g","s">>
Lit_client_window_id == <<"c","l","i","e","n","t","_","w","i","n","d","o","w","_","i","d">>
Lit_event == <<"e","v","e","n","t">>
Lit_action == <<"a","c","t","i","o","n">>
Lit_subscribe == <<"s","u","b","s","c","r","i","b","e">>

isdigit(c) == c \in {"0","1","2","3","4","5","6","7","8","9"}

DigitValue(c) ==
  CASE c = "0" -> 0 [] c = "1" -> 1 [] c = "2" -> 2 [] c = "3" -> 3 [] c = "4" -> 4
    [] c = "5" -> 5 [] c = "6" -> 6 [] c = "7" -> 7 [] c = "8" -> 8 [] c = "9" -> 9

DigitChar(d) == <<"0","1","2","3","4","5","6","7","8","9">>[d + 1]

\* ------------------------------------------- numeric-string predicates

\* The loop of is_float from index i (0-based, as in the code) on.
RECURSIVE is_float_from(_, _, _)
is_float_from(s, i, is_dot_used) ==
  IF i >= Len(s) THEN 1
  ELSE IF isdigit(s[i + 1]) THEN is_float_from(s, i + 1, is_dot_used)
  ELSE IF ~is_dot_used /\ s[i + 1] = "." /\ i # 0 /\ i # Len(s) - 1
       THEN is_float_from(s, i + 1, TRUE)
  ELSE IF s[i + 1] = "-" /\ i = 0 THEN is_float_from(s, i + 1, is_dot_used)
  ELSE 0

is_float(s) == is_float_from(s, 0, FALSE)

\* The loop of is_unsigned_int from index i on.
RECURSIVE is_unsigned_int_from(_, _)
is_unsigned_int_from(s, i) ==
  IF i >= Len(s) THEN 1
  ELSE IF isdigit(s[i + 1]) THEN is_unsigned_int_from(s, i + 1)
  ELSE 0

is_unsigned_int(s) == is_unsigned_int_from(s, 0)

\* The loop of is_signed_int from index i on.
RECURSIVE is_signed_int_from(_, _)
is_signed_int_from(s, i) ==
  IF i >= Len(s) THEN 1
  ELSE IF isdigit(s[i + 1]) THEN is_signed_int_from(s, i + 1)
  ELSE IF i = 0 /\ s[i + 1] = "-" THEN is_signed_int_from(s, i + 1)
  ELSE 0

is_signed_int(s) == is_signed_int_from(s, 0)

\* The value of the leading run of decimal digits of s, continuing from acc.
RECURSIVE DigitsValue(_, _)
DigitsValue(s, acc) ==
  IF s = << >> \/ ~isdigit(Head(s)) THEN acc
  ELSE DigitsValue(Tail(s), 10 * acc + DigitValue(Head(s)))

\* atoll / atol: an optional sign, then the leading digits; 0 when there are none.
atoll(s) ==
  IF s # << >> /\ Head(s) = "-" THEN 0 - DigitsValue(Tail(s), 0)
  ELSE DigitsValue(s, 0)

\* --------------------------------------------------- JSON generation (yajl)

\* The decimal digits of a natural number.
RECURSIVE NatText(_)
NatText(n) ==
  IF n < 10 THEN << DigitChar(n) >>
  ELSE NatText(n \div 10) \o << DigitChar(n % 10) >>

\* yajl_gen_integer: the number as printed by "%lld".
YINT(num) == IF num < 0 THEN <<"-">> \o NatText(0 - num) ELSE NatText(num)

\* yajl_gen_string: the string between double quotes (none of the model's
\* characters needs escaping).
YSTR(str) == <<"\"">> \o str \o <<"\"">>

\* yajl_gen_double of (float)atof(str): a JSON number.  Its digits are those
\* "%.20g" prints for the float nearest to str; the model keeps the text of str.
YDOUBLE(str) == str

\* run_command: if (is_signed_int(args[i])) ... else if (is_float(args[i]))
\* ... else ...
ArgKind(arg) ==
  IF is_signed_int(arg) # 0 THEN "integer"
  ELSE IF is_float(arg) # 0 THEN "double"
  ELSE "string"

\* One element of the "args" array of run_command.
ArgJson(arg) ==
  CASE ArgKind(arg) = "integer" -> YINT(atoll(arg))
    [] ArgKind(arg) = "double" -> YDOUBLE(arg)
    [] OTHER -> YSTR(arg)

\* The elements of a JSON array, separated by commas.
RECURSIVE ArgsJson(_)
ArgsJson(args) ==
  IF args = << >> THEN << >>
  ELSE IF Len(args) = 1 THEN ArgJson(args[1])
  ELSE ArgJson(args[1]) \o <<",">> \o ArgsJson(Tail(args))

\* The yajl buffer run_command builds: {"command":<name>,"args":[...]}.
RunCommandJson(name, args) ==
  <<"{">> \o YSTR(Lit_command) \o <<":">> \o YSTR(name) \o <<",">>
    \o YSTR(Lit_args) \o <<":">> \o <<"[">> \o ArgsJson(args) \o <<"]">> \o <<"}">>

\* The yajl buffer get_dwm_client builds: {"client_window_id":<win>}.
GetDwmClientJson(win) ==
  <<"{">> \o YSTR(Lit_client_window_id) \o <<":">> \o YINT(win) \o <<"}">>

\* The yajl buffer subscribe builds: {"event":<event>,"action":"subscribe"}.
SubscribeJson(event) ==
  <<"{">> \o YSTR(Lit_event) \o <<":">> \o YSTR(event) \o <<",">>
    \o YSTR(Lit_action) \o <<":">> \o YSTR(Lit_subscribe) \o <<"}">>

\* The string literal "" as get_monitors passes it: one NUL byte is readable.
EmptyLiteral == << 0 >>

\* ------------------------------------------------------------------ state

VARIABLES
  \* the invocation, as left by option parsing in main
  message_type,   \* IPCMessageType selected with -t
  ignore_reply,   \* 1 with -i
  monitor,        \* 1 with -m
  argv,           \* the positional arguments, argv[optind..argc-1]
  \* control
  pc,             \* where the process is
  exit_status,    \* -1 while running, else the exit status
  exit_cause,     \* what ended the process
  caller,         \* the function that sent the request / reads the reply
  j,              \* index into argv of the event being subscribed
  reader,         \* "print" (print_socket_reply) or "flush" (flush_socket_reply)
  \* write_socket
  buffer,         \* the bytes send_message hands to write_socket
  written,        \* write_socket's count of bytes written
  wret,           \* write_socket's return value
  \* recv_message, during a call
  header,         \* the header bytes read so far
  read_bytes,     \* recv_message's read_bytes
  reply_size,     \* *reply_size
  msg_type,       \* *msg_type
  reply,          \* the payload bytes stored in *reply so far
  reply_state,    \* "none", or "live" once malloc'ed
  stdout,         \* the calls of printf so far (n) and what the latest printed (line)
  \* the socket and the peer
  sock_in,        \* bytes the peer wrote that the client has not read yet
  sock_tag,       \* for each byte of sock_in, the message it belongs to
  wire_out,       \* bytes the peer received from the client
  peer_closed,    \* the peer closed its end: no byte follows sock_in
  srv_replied,    \* requests the peer answered
  srv_events,     \* event messages the peer pushed
  srv_bad,        \* the peer wrote something that is no well-formed message
  \* history
  nsent,          \* calls of send_message
  ncomplete,      \* requests write_socket wrote completely
  nconsumed,      \* messages read_socket returned to its caller
  nfail,          \* faults so far
  rx_call,        \* bytes read by the current call of recv_message
  rx_tags,        \* the messages those bytes belong to
  rx_start,       \* bytes of its message that precede the call's first byte
  rx_short,       \* one of its reads returned fewer bytes than it asked for
  last            \* the latest return of recv_message

invocation == << message_type, ignore_reply, monitor, argv >>
control == << pc, exit_status, exit_cause, caller, j, reader >>
wvars == << buffer, written, wret >>
rvars == << header, read_bytes, reply_size, msg_type, reply, reply_state >>
peer == << sock_in, sock_tag, peer_closed, srv_replied, srv_events, srv_bad >>
rxvars == << rx_call, rx_tags, rx_start, rx_short >>
counters == << nsent, ncomplete, nconsumed, nfail >>
vars == << invocation, control, wvars, rvars, stdout, peer, wire_out, counters,
           rxvars, last >>

\* ------------------------------------------------------------ input sets

\* The strings a command name, a command argument and a window id are drawn
\* from.
ArgPool == { <<"7">>, <<"a">> }

\* The event names subscribe is called with.
EventPool == { <<"a">> }

RECURSIVE SeqsUpTo(_, _)
SeqsUpTo(S, n) ==
  IF n = 0 THEN { << >> }
  ELSE LET shorter == SeqsUpTo(S, n - 1)
       IN  shorter \cup { Append(s, x) : s \in { t \in shorter : Len(t) = n - 1 }, x \in S }

\* The positional arguments an invocation of each type is given: a command
\* name and its arguments, a window id, event names.  The queries read none.
ArgvFor(type) ==
  CASE type = IPC_TYPE_RUN_COMMAND -> SeqsUpTo(ArgPool, MaxArgs)
    [] type = IPC_TYPE_GET_DWM_CLIENT -> SeqsUpTo(ArgPool, 1)
    [] type = IPC_TYPE_SUBSCRIBE -> SeqsUpTo(EventPool, MaxArgs)
    [] OTHER -> { << >> }

ClientTypes ==
  { IPC_TYPE_RUN_COMMAND, IPC_TYPE_GET_MONITORS, IPC_TYPE_GET_TAGS,
    IPC_TYPE_GET_LAYOUTS, IPC_TYPE_GET_DWM_CLIENT, IPC_TYPE_SUBSCRIBE }

\* The payloads the peer sends: a text of each length, and a text with a NUL
\* byte in it.
PlainPayload(n) == [i \in 1..n |-> 96 + i]
NulPayload(n) == [i \in 1..n |-> IF i = 2 THEN 0 ELSE 96 + i]
Payloads == UNION { { PlainPayload(n), NulPayload(n) } : n \in 0..MaxPayload }

\* A magic that is wrong in its first or in its last byte.
BadMagics ==
  { [IPC_MAGIC EXCEPT ![1] = 100], [IPC_MAGIC EXCEPT ![IPC_MAGIC_LEN] = 99] }

\* The errno values a failing read(2) and a failing write(2) leave.
ReadErrnos == { EINTR, EAGAIN, ECONNRESET }
WriteErrnos == { EINTR, EAGAIN, EPIPE, ECONNRESET }

\* No call of recv_message has returned yet.
NoLast ==
  [ n |-> 0, replies |-> 0, caller |-> "none", req |-> 0, ret |-> 0, errno |-> "none", rd |-> 0,
    header |-> << >>, read_bytes |-> 0, reply_size |-> 0, msg_type |-> 0,
    reply |-> << >>, alloc |-> FALSE, freed |-> FALSE, rx |-> << >>, tags |-> {},
    start |-> 0, short |-> FALSE, nfree |-> 0, allocs |-> 0, frees |-> 0 ]

\* Nothing has happened on the connection, and recv_message was not called.
Untouched ==
  /\ exit_status = -1
  /\ exit_cause = "none"
  /\ j = 0
  /\ written = 0
  /\ wret = 0
  /\ header = << >>
  /\ read_bytes = 0
  /\ reply_size = 0
  /\ msg_type = 0
  /\ reply = << >>
  /\ reply_state = "none"
  /\ stdout = [ n |-> 0, line |-> << >> ]
  /\ sock_in = << >>
  /\ sock_tag = << >>
  /\ wire_out = << >>
  /\ peer_closed = FALSE
  /\ srv_replied = 0
  /\ srv_events = 0
  /\ srv_bad = FALSE
  /\ ncomplete = 0
  /\ nconsumed = 0
  /\ nfail = 0
  /\ rx_call = << >>
  /\ rx_tags = {}
  /\ rx_start = 0
  /\ rx_short = FALSE
  /\ last = NoLast

\* main after option parsing: the type, the flags and the positional
\* arguments are what the command line said.
Init ==
  /\ message_type \in ClientTypes
  /\ ignore_reply \in {0, 1}
  /\ monitor \in {0, 1}
  /\ argv \in ArgvFor(message_type)
  /\ pc = "main"
  /\ caller = "main"
  /\ reader = "none"
  /\ buffer = << >>
  /\ nsent = 0
  /\ Untouched

\* --------------------------------------------------------------- helpers

Min(a, b) == IF a < b THEN a ELSE b

\* printf("%.*s\n", reply_size, reply): at most reply_size bytes, ending
\* before the first NUL byte, and a newline (byte 10).
RECURSIVE UpToNul(_)
UpToNul(s) ==
  IF s = << >> \/ Head(s) = 0 THEN << >> ELSE << Head(s) >> \o UpToNul(Tail(s))

PrintfReply(size, buf) == UpToNul(Take(buf, size)) \o << 10 >>

\* A seeded fault: the reply is printed whatever ignore_reply says.
ReaderAlwaysPrint(ignore) == "print"

\* run_command and subscribe: if (!ignore_reply) print_socket_reply(); else
\* flush_socket_reply();
ReaderFor(ignore) == IF ignore = 0 THEN "print" ELSE "flush"

\* exit(status) / return status from main.
Exit(status, cause) ==
  /\ pc' = "exit"
  /\ exit_status' = status
  /\ exit_cause' = cause

\* send_message up to its call of write_socket.
BeginSend(type, size, msg) ==
  /\ buffer' = SendMessageBytes(type, size, msg)
  /\ written' = 0
  /\ wret' = 0
  /\ nsent' = nsent + 1
  /\ pc' = "write"

\* A call of recv_message starts: read_bytes = 0, nothing in the header.
BeginRecv ==
  /\ header' = << >>
  /\ read_bytes' = 0
  /\ reply_size' = 0
  /\ msg_type' = 0
  /\ reply' = << >>
  /\ reply_state' = "none"
  /\ rx_call' = << >>
  /\ rx_tags' = {}
  /\ rx_start' = 0
  /\ rx_short' = FALSE

\* ------------------------------------------------------------------ main

\* main: the -m check that precedes the connection.
MainMonitorUsage ==
  /\ pc = "main"
  /\ monitor = 1 /\ message_type # IPC_TYPE_SUBSCRIBE
  /\ Exit(EXIT_FAILURE, "usage")
  /\ UNCHANGED << invocation, caller, j, reader, wvars, rvars, stdout, peer,
                  wire_out, counters, rxvars, last >>

\* connect_to_socket succeeded.
MainConnect ==
  /\ pc = "main"
  /\ ~(monitor = 1 /\ message_type # IPC_TYPE_SUBSCRIBE)
  /\ pc' = "dispatch"
  /\ UNCHANGED << invocation, exit_status, exit_cause, caller, j, reader, wvars, rvars,
                  stdout, peer, wire_out, counters, rxvars, last >>

\* connect_to_socket returned -1: err(EXIT_FAILURE, ...).
MainConnectFailed ==
  /\ pc = "main"
  /\ ~(monitor = 1 /\ message_type # IPC_TYPE_SUBSCRIBE)
  /\ Exit(EXIT_FAILURE, "connect")
  /\ UNCHANGED << invocation, caller, j, reader, wvars, rvars, stdout, peer,
                  wire_out, counters, rxvars, last >>

\* main: a branch that ends in usage_error.
MainUsageError ==
  /\ pc = "dispatch"
  /\ \/ message_type = IPC_TYPE_RUN_COMMAND /\ Len(argv) = 0
     \/ message_type = IPC_TYPE_GET_DWM_CLIENT /\ Len(argv) = 0
     \/ message_type = IPC_TYPE_GET_DWM_CLIENT /\ Len(argv) > 0
          /\ is_unsigned_int(argv[1]) = 0
     \/ message_type = IPC_TYPE_SUBSCRIBE /\ Len(argv) = 0
  /\ Exit(EXIT_FAILURE, "usage")
  /\ UNCHANGED << invocation, caller, j, reader, wvars, rvars, stdout, peer,
                  wire_out, counters, rxvars, last >>

\* main -> run_command(command, command_args, command_argc) up to the write.
RunCommand ==
  /\ pc = "dispatch"
  /\ message_type = IPC_TYPE_RUN_COMMAND /\ Len(argv) > 0
  /\ LET msg == StrBytes(RunCommandJson(argv[1], Tail(argv)))
     IN  BeginSend(IPC_TYPE_RUN_COMMAND, Len(msg), msg)
  /\ caller' = "run_command"
  /\ reader' = ReaderFor(ignore_reply)
  /\ UNCHANGED << invocation, exit_status, exit_cause, j, rvars, stdout, peer,
                  wire_out, ncomplete, nconsumed, nfail, rxvars, last >>

\* main -> get_monitors / get_tags / get_layouts up to the write.
GetQuery ==
  /\ pc = "dispatch"
  /\ message_type \in { IPC_TYPE_GET_MONITORS, IPC_TYPE_GET_TAGS, IPC_TYPE_GET_LAYOUTS }
  /\ BeginSend(message_type, 1, EmptyLiteral)
  /\ caller' = "get"
  /\ reader' = "print"
  /\ UNCHANGED << invocation, exit_status, exit_cause, j, rvars, stdout, peer,
                  wire_out, ncomplete, nconsumed, nfail, rxvars, last >>

\* main -> get_dwm_client(atol(argv[optind])) up to the write.
GetDwmClient ==
  /\ pc = "dispatch"
  /\ message_type = IPC_TYPE_GET_DWM_CLIENT /\ Len(argv) > 0
  /\ is_unsigned_int(argv[1]) = 1
  /\ LET msg == StrBytes(GetDwmClientJson(atoll(argv[1])))
     IN  BeginSend(IPC_TYPE_GET_DWM_CLIENT, Len(msg), msg)
  /\ caller' = "get_dwm_client"
  /\ reader' = "print"
  /\ UNCHANGED << invocation, exit_status, exit_cause, j, rvars, stdout, peer,
                  wire_out, ncomplete, nconsumed, nfail, rxvars, last >>

\* main -> subscribe(argv[optind]), the first event, up to the write.
SubscribeFirst ==
  /\ pc = "dispatch"
  /\ message_type = IPC_TYPE_SUBSCRIBE /\ Len(argv) > 0
  /\ LET msg == StrBytes(SubscribeJson(argv[1]))
     IN  BeginSend(IPC_TYPE_SUBSCRIBE, Len(msg), msg)
  /\ caller' = "subscribe"
  /\ j' = 1
  /\ reader' = ReaderFor(ignore_reply)
  /\ UNCHANGED << invocation, exit_status, exit_cause, rvars, stdout, peer,
                  wire_out, ncomplete, nconsumed, nfail, rxvars, last >>

\* ---------------------------------------------------------- write_socket

\* A seeded fault: every write(2) starts at the beginning of the buffer.
WriteChunkFromStart(buf, done, n) == SubSeq(buf, 1, n)

\* The n bytes write(2) takes from ((uint8_t *)buf) + written.
WriteChunk(buf, done, n) == SubSeq(buf, done + 1, done + n)

\* write(2) accepted n bytes; when that completes the buffer, write_socket
\* and send_message return and the caller enters read_socket.
WriteSome ==
  /\ pc = "write"
  /\ written < Len(buffer)
  /\ \E n \in 1..(Len(buffer) - written) :
       /\ wire_out' = wire_out \o WriteChunk(buffer, written, n)
       /\ written' = written + n
       /\ IF written + n < Len(buffer)
          THEN UNCHANGED << pc, wret, ncomplete, rvars, rxvars >>
          ELSE /\ wret' = written + n
               /\ ncomplete' = ncomplete + 1
               /\ pc' = "recv_header"
               /\ BeginRecv
  /\ UNCHANGED << invocation, exit_status, exit_cause, caller, j, reader, buffer,
                  stdout, peer, nsent, nconsumed, nfail, last >>

\* write_socket: if (errno == EAGAIN || errno == EWOULDBLOCK || errno == EINTR)
WriteRetries(e) == e = EAGAIN \/ e = EWOULDBLOCK \/ e = EINTR

\* write(2) returned -1 with EAGAIN, EWOULDBLOCK or EINTR: continue.
WriteTransient ==
  /\ pc = "write"
  /\ written < Len(buffer)
  /\ nfail < MaxFaults
  /\ \E e \in WriteErrnos : WriteRetries(e)
  /\ nfail' = nfail + 1
  /\ UNCHANGED << invocation, control, wvars, rvars, stdout, peer, wire_out,
                  nsent, ncomplete, nconsumed, rxvars, last >>

\* write(2) returned -1 with another errno: write_socket returns -1,
\* send_message returns 0 all the same and the caller enters read_socket.
\* On a connected stream socket that errno is EPIPE or ECONNRESET: the peer
\* has gone away, and nothing follows the bytes it wrote before.
WriteFailed ==
  /\ pc = "write"
  /\ written < Len(buffer)
  /\ \E e \in WriteErrnos : ~WriteRetries(e)
  /\ nfail < MaxFaults
  /\ nfail' = nfail + 1
  /\ wret' = -1
  /\ peer_closed' = TRUE
  /\ pc' = "recv_header"
  /\ BeginRecv
  /\ UNCHANGED << invocation, exit_status, exit_cause, caller, j, reader, buffer, written,
                  stdout, sock_in, sock_tag, srv_replied, srv_events, srv_bad, wire_out,
                  nsent, ncomplete, nconsumed, last >>

\* ------------------------------------------- read_socket and its callers

\* A seeded fault: every errno counts as transient.
ReadRetriesAny(e) == TRUE

\* recv_message: if (errno == EINTR || errno == EAGAIN) continue;
\* read_socket: ret == -1 && (errno == EINTR || errno == EAGAIN)
ReadRetries(e) == e = EINTR \/ e = EAGAIN

\* A seeded fault: the caller frees reply whatever recv_message returned.
CallerFreesAlways(r) == 1

\* flush_socket_reply and print_socket_reply: free(reply), reached when
\* read_socket returns, which it does when recv_message returned 0.
CallerFrees(r) == IF r = 0 THEN 1 ELSE 0

\* What a call of recv_message leaves when it returns: its return value and
\* errno, what its last read(2) returned (rd), its out-parameters, whether
\* it allocated and freed *reply; and who called, after how many requests,
\* what the call took from the stream, and how many of the calls so far
\* returned 0 with a reply of the peer, the whole of it and nothing else.
\* nfree counts the calls of free on the buffer of this call, by recv_message
\* and by its caller; allocs and frees count malloc and free over all calls.
Outcome(r, e, rd, hdr, rb, size, type, buf, alloc, freed, rx, tags, start, short) ==
  [ n |-> last.n + 1,
    replies |-> last.replies +
                  (IF r = 0 /\ start = 0 /\ \E k \in 1..nsent : tags = { << "reply", k >> }
                   THEN 1 ELSE 0),
    caller |-> caller, req |-> nsent, ret |-> r, errno |-> e,
    rd |-> rd, header |-> hdr, read_bytes |-> rb, reply_size |-> size,
    msg_type |-> type, reply |-> buf, alloc |-> alloc, freed |-> freed, rx |-> rx,
    tags |-> tags, start |-> start, short |-> short,
    nfree |-> (IF freed THEN 1 ELSE 0) + CallerFrees(r),
    allocs |-> last.allocs + (IF alloc THEN 1 ELSE 0),
    frees |-> last.frees + (IF freed THEN 1 ELSE 0) + CallerFrees(r) ]

\* A seeded fault: the do-while loop of main is left after its first pass.
WhileNever(m) == FALSE

\* main: do { print_socket_reply(); } while (monitor);
WhileMonitor(m) == m # 0

\* read_socket returned to print_socket_reply or flush_socket_reply, which
\* prints the payload (or not) and frees it; then the caller goes on:
\* run_command, get_monitors, get_tags, get_layouts and get_dwm_client return
\* and main returns 0; subscribe returns into main's for loop, which calls
\* subscribe for the next event or is left for the do-while loop; the
\* do-while loop calls print_socket_reply again while (monitor).
ReplyConsumed(R) ==
  /\ stdout' = IF reader = "print"
               THEN [ n |-> stdout.n + 1, line |-> PrintfReply(R.reply_size, R.reply) ]
               ELSE stdout
  /\ nconsumed' = nconsumed + 1
  /\ IF caller = "subscribe" /\ j < Len(argv)
     THEN /\ LET msg == StrBytes(SubscribeJson(argv[j + 1]))
             IN  BeginSend(IPC_TYPE_SUBSCRIBE, Len(msg), msg)
          /\ j' = j + 1
          /\ UNCHANGED << exit_status, exit_cause, caller, reader >>
     ELSE IF caller = "subscribe" \/ (caller = "main" /\ WhileMonitor(monitor))
     THEN /\ caller' = "main"
          /\ reader' = "print"
          /\ pc' = "recv_header"
          /\ UNCHANGED << exit_status, exit_cause, j, wvars, nsent >>
     ELSE /\ Exit(0, "return")
          /\ UNCHANGED << caller, j, reader, wvars, nsent >>

\* recv_message returned to read_socket: 0 ends its loop; -1 with errno
\* EINTR or EAGAIN calls recv_message again; anything else is
\* err(EXIT_FAILURE, ...).  Whatever follows starts from a fresh frame.
RecvReturns(R) ==
  /\ last' = R
  /\ BeginRecv
  /\ IF R.ret = 0
     THEN ReplyConsumed(R)
     ELSE IF R.ret = -1 /\ ReadRetries(R.errno)
     THEN /\ pc' = "recv_header"
          /\ UNCHANGED << exit_status, exit_cause, caller, j, reader, wvars, stdout,
                          nsent, nconsumed >>
     ELSE /\ Exit(EXIT_FAILURE, "read")
          /\ UNCHANGED << caller, j, reader, wvars, stdout, nsent, nconsumed >>

\* recv_message goes on with its loop.
RecvGoesOn ==
  UNCHANGED << exit_status, exit_cause, caller, j, reader, wvars, stdout, nsent,
               nconsumed, last >>

\* ---------------------------------------------------------- recv_message

\* The messages the first n bytes of the socket belong to.
TagsOf(n) == { << sock_tag[i][1], sock_tag[i][2] >> : i \in 1..n }

\* The place in its message of the first byte a call reads.
StartOf == IF rx_call = << >> THEN sock_tag[1][3] - 1 ELSE rx_start

\* The header loop: read(2) returned n > 0 bytes.  With the header complete
\* the magic is checked, the size and the type are extracted, the payload
\* buffer is allocated and the payload loop is entered (and left at once when
\* the size is 0).
ReadHeaderSome ==
  /\ pc = "recv_header"
  /\ read_bytes < HeaderSize
  /\ \E n \in 1..Min(Len(sock_in), HeaderSize - read_bytes) :
       LET hdr == ReadInto(header, read_bytes, Take(sock_in, n))
           rx == rx_call \o Take(sock_in, n)
           tags == rx_tags \cup TagsOf(n)
           short == rx_short \/ n < HeaderSize - read_bytes
       IN  /\ sock_in' = Drop(sock_in, n)
           /\ sock_tag' = Drop(sock_tag, n)
           /\ IF read_bytes + n < HeaderSize
              THEN /\ header' = hdr
                   /\ read_bytes' = read_bytes + n
                   /\ rx_call' = rx
                   /\ rx_tags' = tags
                   /\ rx_start' = StartOf
                   /\ rx_short' = short
                   /\ UNCHANGED << pc, reply_size, msg_type, reply, reply_state >>
                   /\ RecvGoesOn
              ELSE IF ~MagicMatches(hdr)
              THEN RecvReturns(Outcome(-3, "none", n, hdr, read_bytes + n, reply_size,
                                       msg_type, reply, FALSE, FALSE, rx, tags, StartOf,
                                       short))
              ELSE IF HeaderSizeField(hdr) = 0
              THEN RecvReturns(Outcome(0, "none", n, hdr, 0, HeaderSizeField(hdr),
                                       HeaderTypeField(hdr), << >>, TRUE, FALSE,
                                       rx, tags, StartOf, short))
              ELSE /\ header' = hdr
                   /\ read_bytes' = 0
                   /\ reply_size' = HeaderSizeField(hdr)
                   /\ msg_type' = HeaderTypeField(hdr)
                   /\ reply' = << >>
                   /\ reply_state' = "live"
                   /\ pc' = "recv_payload"
                   /\ rx_call' = rx
                   /\ rx_tags' = tags
                   /\ rx_start' = StartOf
                   /\ rx_short' = short
                   /\ RecvGoesOn
  /\ UNCHANGED << invocation, peer_closed, srv_replied, srv_events, srv_bad, wire_out,
                  ncomplete, nfail >>

\* A seeded fault: end of file in the header loop is -2 wherever it comes.
HeaderEofAlwaysEarly(rb) == -2

\* The header loop, n == 0: -2 (EOF) with nothing read, -3 (premature end)
\* otherwise.
HeaderEofResult(rb) == IF rb = 0 THEN -2 ELSE -3

\* The payload loop, n == 0: -2.
PayloadEofResult(rb) == -2

\* The header loop: read(2) returned 0 (end of file).
ReadHeaderEof ==
  /\ pc = "recv_header"
  /\ read_bytes < HeaderSize
  /\ sock_in = << >> /\ peer_closed
  /\ RecvReturns(Outcome(HeaderEofResult(read_bytes), "none", 0, header, read_bytes,
                         reply_size, msg_type, reply, FALSE, FALSE,
                         rx_call, rx_tags, rx_start, rx_short))
  /\ UNCHANGED << invocation, peer, wire_out, ncomplete, nfail >>

\* The header loop: read(2) returned -1: return -1, whatever errno says.
ReadHeaderError ==
  /\ pc = "recv_header"
  /\ read_bytes < HeaderSize
  /\ \E e \in ReadErrnos :
       /\ ReadRetries(e) => nfail < MaxFaults
       /\ nfail' = IF ReadRetries(e) THEN nfail + 1 ELSE nfail
       /\ RecvReturns(Outcome(-1, e, -1, header, read_bytes, reply_size, msg_type,
                              reply, FALSE, FALSE, rx_call, rx_tags, rx_start, rx_short))
  /\ UNCHANGED << invocation, peer, wire_out, ncomplete >>

\* The payload loop: read(2) returned n > 0 bytes.
ReadPayloadSome ==
  /\ pc = "recv_payload"
  /\ read_bytes < reply_size
  /\ \E n \in 1..Min(Len(sock_in), reply_size - read_bytes) :
       LET buf == ReadInto(reply, read_bytes, Take(sock_in, n))
           rx == rx_call \o Take(sock_in, n)
           tags == rx_tags \cup TagsOf(n)
           short == rx_short \/ n < reply_size - read_bytes
       IN  /\ sock_in' = Drop(sock_in, n)
           /\ sock_tag' = Drop(sock_tag, n)
           /\ IF read_bytes + n < reply_size
              THEN /\ reply' = buf
                   /\ read_bytes' = read_bytes + n
                   /\ rx_call' = rx
                   /\ rx_tags' = tags
                   /\ rx_start' = StartOf
                   /\ rx_short' = short
                   /\ UNCHANGED << pc, header, reply_size, msg_type, reply_state >>
                   /\ RecvGoesOn
              ELSE RecvReturns(Outcome(0, "none", n, header, read_bytes + n, reply_size,
                                       msg_type, buf, TRUE, FALSE, rx, tags, StartOf,
                                       short))
  /\ UNCHANGED << invocation, peer_closed, srv_replied, srv_events, srv_bad, wire_out,
                  ncomplete, nfail >>

\* The payload loop: read(2) returned 0 (end of file): free(*reply), return.
ReadPayloadEof ==
  /\ pc = "recv_payload"
  /\ read_bytes < reply_size
  /\ sock_in = << >> /\ peer_closed
  /\ RecvReturns(Outcome(PayloadEofResult(read_bytes), "none", 0, header, read_bytes,
                         reply_size, msg_type, reply, TRUE, TRUE,
                         rx_call, rx_tags, rx_start, rx_short))
  /\ UNCHANGED << invocation, peer, wire_out, ncomplete, nfail >>

\* The payload loop: read(2) returned -1.  With errno EINTR or EAGAIN the
\* loop continues; otherwise free(*reply), -1.
ReadPayloadError ==
  /\ pc = "recv_payload"
  /\ read_bytes < reply_size
  /\ \E e \in ReadErrnos :
       IF ReadRetries(e)
       THEN /\ nfail < MaxFaults
            /\ nfail' = nfail + 1
            /\ UNCHANGED << pc, rvars, rxvars >>
            /\ RecvGoesOn
       ELSE /\ nfail' = nfail
            /\ RecvReturns(Outcome(-1, e, -1, header, read_bytes, reply_size, msg_type,
                                   reply, TRUE, TRUE, rx_call, rx_tags, rx_start,
                                   rx_short))
  /\ UNCHANGED << invocation, peer, wire_out, ncomplete >>

\* ----------------------------------------------------------------- the peer

\* The client learns of the peer only through read(2), and a byte that is on
\* its way is to the client a byte not written yet: the peer's steps are taken
\* while the client is in one of its read loops and the socket is empty.
ClientWaits == pc \in { "recv_header", "recv_payload" } /\ sock_in = << >>

\* The peer writes bytes: they follow what is in the socket already.
PeerWrites(bytes, kind, req) ==
  /\ sock_in' = sock_in \o bytes
  /\ sock_tag' = sock_tag \o [i \in 1..Len(bytes) |-> << kind, req, i >>]

\* The peer answers the oldest request it has received and not answered; the
\* reply carries the type of the request.
ServerReply ==
  /\ ClientWaits
  /\ ~peer_closed /\ ~srv_bad
  /\ srv_replied < ncomplete
  /\ \E p \in Payloads :
       PeerWrites(SendMessageBytes(message_type, Len(p), p), "reply", srv_replied + 1)
  /\ srv_replied' = srv_replied + 1
  /\ UNCHANGED << invocation, control, wvars, rvars, stdout, peer_closed,
                  srv_events, srv_bad, wire_out, counters, rxvars, last >>

\* The peer pushes an event of a subscription it has acknowledged.
ServerEvent ==
  /\ ClientWaits
  /\ ~peer_closed /\ ~srv_bad
  /\ message_type = IPC_TYPE_SUBSCRIBE /\ srv_replied >= 1
  /\ srv_events < MaxEvents
  /\ \E p \in Payloads :
       PeerWrites(SendMessageBytes(IPC_TYPE_EVENT, Len(p), p), "event", 0)
  /\ srv_events' = srv_events + 1
  /\ UNCHANGED << invocation, control, wvars, rvars, stdout, peer_closed,
                  srv_replied, srv_bad, wire_out, counters, rxvars, last >>

\* The peer writes a message whose magic is wrong.
ServerBadMagic ==
  /\ ClientWaits
  /\ ~peer_closed /\ ~srv_bad
  /\ nfail < MaxFaults
  /\ \E m \in BadMagics, n \in { 0, MaxPayload } :
       PeerWrites(m \o U32Bytes(n) \o << IPC_TYPE_EVENT >> \o PlainPayload(n),
                  "garbage", 0)
  /\ srv_bad' = TRUE
  /\ nfail' = nfail + 1
  /\ UNCHANGED << invocation, control, wvars, rvars, stdout, peer_closed,
                  srv_replied, srv_events, wire_out, nsent, ncomplete, nconsumed,
                  rxvars, last >>

\* The peer goes away: it closes the connection, possibly in the middle of
\* the message it was writing, the reply to a request it has not answered or
\* else an event (a proper prefix of it is all that arrives).
ServerCloses ==
  /\ ClientWaits
  /\ ~peer_closed /\ ~srv_bad
  /\ nfail < MaxFaults
  /\ LET type == IF srv_replied < ncomplete THEN message_type ELSE IPC_TYPE_EVENT
         bytes == SendMessageBytes(type, MaxPayload, PlainPayload(MaxPayload))
     IN  \E n \in 0..(Len(bytes) - 1) :
           PeerWrites(Take(bytes, n), "truncated", 0)
  /\ peer_closed' = TRUE
  /\ srv_bad' = TRUE
  /\ nfail' = nfail + 1
  /\ UNCHANGED << invocation, control, wvars, rvars, stdout,
                  srv_replied, srv_events, wire_out, nsent, ncomplete, nconsumed,
                  rxvars, last >>

\* ------------------------------------------------------- the specification

Next ==
  \/ MainMonitorUsage
  \/ MainConnect
  \/ MainConnectFailed
  \/ MainUsageError
  \/ RunCommand
  \/ GetQuery
  \/ GetDwmClient
  \/ SubscribeFirst
  \/ WriteSome
  \/ WriteTransient
  \/ WriteFailed
  \/ ReadHeaderSome
  \/ ReadHeaderEof
  \/ ReadHeaderError
  \/ ReadPayloadSome
  \/ ReadPayloadEof
  \/ ReadPayloadError
  \/ ServerReply
  \/ ServerEvent
  \/ ServerBadMagic
  \/ ServerCloses

Spec == Init /\ [][Next]_vars

\* ------------------------------------------------- framing, end to end

\* The values of IPCMessageType.
MessageTypes ==
  { IPC_TYPE_RUN_COMMAND, IPC_TYPE_GET_MONITORS, IPC_TYPE_GET_TAGS,
    IPC_TYPE_GET_LAYOUTS, IPC_TYPE_GET_DWM_CLIENT, IPC_TYPE_SUBSCRIBE,
    IPC_TYPE_EVENT }

\* The texts send_message is given in the framing specification.
FramingTexts == SeqsUpTo({ "7", "a" }, MaxPayload)

\* send_message(message_type, msg_size, msg) was called with the text
\* argv[1] and is about to write.
InitFraming ==
  /\ message_type \in MessageTypes
  /\ ignore_reply = 0
  /\ monitor = 0
  /\ argv \in { << t >> : t \in FramingTexts }
  /\ pc = "write"
  /\ caller = "get"
  /\ reader = "print"
  /\ buffer = SendMessageBytes(message_type, Len(StrBytes(argv[1])), StrBytes(argv[1]))
  /\ nsent = 1
  /\ Untouched

\* The bytes write_socket wrote come back as the bytes recv_message reads.
Loopback ==
  /\ ClientWaits
  /\ wire_out # << >>
  /\ PeerWrites(wire_out, "reply", 1)
  /\ wire_out' = << >>
  /\ UNCHANGED << invocation, control, wvars, rvars, stdout, peer_closed,
                  srv_replied, srv_events, srv_bad, counters, rxvars, last >>

NextFraming ==
  \/ WriteSome
  \/ Loopback
  \/ ReadHeaderSome
  \/ ReadPayloadSome

\* send_message's bytes fed to recv_message, without faults.
SpecFraming == InitFraming /\ [][NextFraming]_vars

\* ------------------------------------------------------------- properties

\* The requests an invocation asks for: one per event name for subscribe,
\* one otherwise.
Requested == IF message_type = IPC_TYPE_SUBSCRIBE THEN Len(argv) ELSE 1

\* The peer kept to the protocol and the connection is up.
PeerWellBehaved == ~srv_bad /\ ~peer_closed

\* C1.  Transient read failures are invisible.  While the peer sends only
\* well-formed messages and keeps the connection open: a call of recv_message
\* that returns because read(2) failed with EINTR or EAGAIN has taken no byte
\* from the stream (or else the bytes it took are dropped, the next call
\* starting with an empty header); a call that returns 0 returns one whole
\* message, its type, length and payload; and the process is not ended by
\* read_socket unless read(2) failed with another errno.
TransientReadsInvisible ==
  PeerWellBehaved =>
    /\ (last.ret = -1 /\ last.errno \in { EINTR, EAGAIN }) => last.rx = << >>
    /\ (last.n > 0 /\ last.ret = 0) =>
         /\ last.start = 0
         /\ Cardinality(last.tags) = 1
         /\ last.rx = SendMessageBytes(last.msg_type, last.reply_size, last.reply)
    /\ exit_cause = "read" => (last.ret = -1 /\ last.errno \notin { EINTR, EAGAIN })

\* C2.  Single-exchange mode.  Without -m the client consumes no more
\* messages than it sent requests, and once it has consumed as many messages
\* as it was asked to send requests it has returned 0 from main: it is not in
\* another read.
SingleExchangeDone ==
  monitor = 0 =>
    /\ nconsumed <= nsent
    /\ (nconsumed >= 1 /\ nconsumed = Requested) => (pc = "exit" /\ exit_status = 0)

\* C3.  Each subscribe consumes its own reply.  While nothing has failed,
\* the message print_socket_reply or flush_socket_reply consumed for subscribe
\* after the k-th request is the peer's reply to request k.
SubscribeConsumesOwnReply ==
  (last.n > 0 /\ last.caller = "subscribe" /\ last.ret = 0 /\ nfail = 0) =>
    last.tags = { << "reply", last.req >> }

\* C4.  A write that fails for good aborts the exchange.  Once write_socket
\* has returned -1 the process is not in recv_message, waiting for the reply
\* to the request it did not write.
WriteFailureAborts ==
  wret = -1 => (pc = "exit" /\ exit_status # 0)

\* C5.  Round-trip framing.  The buffer send_message builds is 12 header
\* bytes (the magic, the length, the type) followed by the payload, and
\* recv_message, reading those bytes, returns 0 with the same type, the same
\* length and the same payload.
RoundTripFraming ==
  LET msg == StrBytes(argv[1])
  IN  /\ Len(buffer) = 12 + Len(msg)
      /\ Take(buffer, 7) = IPC_MAGIC
      /\ last.n > 0 =>
           /\ last.ret = 0
           /\ last.msg_type = message_type
           /\ last.reply_size = Len(msg)
           /\ last.reply = msg

\* A message of the longest text, of the last type, went through.
RoundTripFramingWitness ==
  /\ last.n = 1 /\ last.ret = 0
  /\ message_type = IPC_TYPE_EVENT
  /\ Len(argv[1]) = MaxPayload
  /\ last.reply = StrBytes(argv[1])

\* What recv_message returns for the bytes of stream when every read(2)
\* delivers all it was asked for: one read for the header, one for the
\* payload.
FullRead(stream) ==
  LET hdr == Take(stream, HeaderSize)
  IN  [ msg_type |-> HeaderTypeField(hdr),
        reply_size |-> HeaderSizeField(hdr),
        reply |-> SubSeq(stream, HeaderSize + 1, HeaderSize + HeaderSizeField(hdr)) ]

\* C6.  Partial I/O resilience.  Whenever recv_message returns 0, however
\* the bytes it took from the stream were split into reads, its type, length
\* and payload are those of one full read per stage of the same bytes, and it
\* took exactly the header and the payload from the stream.
ShortReadsEquivalent ==
  (last.n > 0 /\ last.ret = 0) =>
    /\ last.msg_type = FullRead(last.rx).msg_type
    /\ last.reply_size = FullRead(last.rx).reply_size
    /\ last.reply = FullRead(last.rx).reply
    /\ Len(last.rx) = HeaderSize + last.reply_size

\* A well-formed message with the longest payload was returned by a call in
\* which some read was short, and nothing failed.
ShortReadsEquivalentWitness ==
  /\ last.n > 0 /\ last.ret = 0 /\ last.short
  /\ nfail = 0
  /\ last.reply_size = MaxPayload
  /\ last.tags = { << "reply", 1 >> }

\* C7.  Magic validation.  A call of recv_message that read a whole header
\* whose first 7 bytes are not "DWM-IPC" returned -3 having read those 12
\* bytes and no more, and without allocating the payload buffer; and the
\* payload loop is never entered, nor the buffer allocated, behind such a
\* header.
BadMagicRejected ==
  /\ (last.n > 0 /\ Len(last.rx) >= 12 /\ Take(last.rx, 7) # <<68, 87, 77, 45, 73, 80, 67>>) =>
       (last.ret = -3 /\ ~last.alloc /\ Len(last.rx) = 12)
  /\ (pc = "recv_payload" \/ reply_state = "live") =>
       Take(rx_call, 7) = <<68, 87, 77, 45, 73, 80, 67>>

\* The peer wrote a header with a wrong magic and a well-formed length and
\* type and the payload behind it; the call returned -3 and the payload is
\* still in the socket.
BadMagicRejectedWitness ==
  /\ last.n > 0 /\ last.ret = -3
  /\ last.tags = { << "garbage", 0 >> }
  /\ Len(last.rx) = 12
  /\ HeaderSizeField(last.header) = MaxPayload
  /\ Len(sock_in) = MaxPayload

\* C8.  End of file in the header loop.  A call of recv_message whose last
\* read(2) returned 0 before the header was complete returned -2 if the call
\* had read nothing and -3 if it had read 1 to 11 bytes, and the two values
\* differ.
HeaderEofClassified ==
  (last.n > 0 /\ last.rd = 0 /\ ~last.alloc) =>
    /\ Len(last.rx) < 12
    /\ Len(last.rx) = 0 => last.ret = -2
    /\ Len(last.rx) >= 1 => last.ret = -3
    /\ HeaderEofResult(0) # HeaderEofResult(Len(last.rx) + 1)

\* The peer closed after 11 bytes of a header.
HeaderEofClassifiedWitness ==
  /\ last.n > 0 /\ last.rd = 0 /\ ~last.alloc
  /\ Len(last.rx) = 11
  /\ last.ret = -3
  /\ pc = "exit"

\* C9.  End of file in the payload loop.  A call of recv_message whose last
\* read(2) returned 0 behind a valid header, with at least one payload byte
\* read and fewer than the header announced, returned -3 (the value of a
\* truncated message, not the -2 of end of file before any byte) and freed
\* the payload buffer.
PayloadEofTruncated ==
  (last.n > 0 /\ last.rd = 0 /\ last.alloc /\ Len(last.reply) >= 1) =>
    (last.ret = -3 /\ last.ret # HeaderEofResult(0) /\ last.freed)

\* A return of recv_message read_socket does not recover from: -2, -3, or -1
\* with an errno other than EINTR and EAGAIN.
FatalOutcome(R) ==
  R.n > 0 /\ (R.ret \in { -2, -3 } \/ (R.ret = -1 /\ R.errno \notin { EINTR, EAGAIN }))

\* C10.  Read failures are fatal.  After a return of recv_message that
\* is no success and no transient failure the process has exited with
\* EXIT_FAILURE, a non-zero status, with nothing printed or consumed for that
\* call and no read begun after it; at most one payload is printed for every
\* message consumed; and never are more requests sent than the invocation
\* asked for.
ReadFailureFatal ==
  /\ nsent <= Requested
  /\ stdout.n <= nconsumed
  /\ FatalOutcome(last) =>
       /\ pc = "exit"
       /\ exit_status = EXIT_FAILURE /\ exit_status # 0
       /\ nconsumed < last.n
       /\ rx_call = << >>

\* A subscription whose first reply was consumed and whose next read failed
\* with an errno that is not transient.
ReadFailureFatalWitness ==
  /\ FatalOutcome(last)
  /\ last.ret = -1 /\ last.errno = ECONNRESET
  /\ nconsumed >= 1
  /\ nsent = 2
  /\ pc = "exit"

\* main is in its do-while loop with -m: every subscribe has returned.
Streaming == monitor = 1 /\ caller = "main" /\ nsent >= 1 /\ nconsumed >= Len(argv)

OneOutstandingRequest ==
  /\ nsent - last.replies <= 1
  /\ pc = "write" => nconsumed = nsent - 1

\* C13.  Suppressed reply.  Under -i, run_command and every call of
\* subscribe still consume one message after their send: a request is
\* written only when a message was consumed for each request before it, main
\* returns 0 only when a message was consumed for every request, and the
\* message consumed is a header and the whole payload the header declares.
\* None of these messages is printed: run_command prints nothing at all, and
\* under subscribe only the messages read by main's loop, those beyond one
\* per event name, are printed.
SuppressedReplyStillRead ==
  (ignore_reply = 1 /\ message_type \in { IPC_TYPE_RUN_COMMAND, IPC_TYPE_SUBSCRIBE }) =>
    /\ pc = "write" => nconsumed = nsent - 1
    /\ (pc = "exit" /\ exit_status = 0) => nconsumed >= nsent
    /\ (last.n > 0 /\ last.ret = 0 /\ last.caller \in { "run_command", "subscribe" }) =>
         /\ Len(last.rx) = 12 + HeaderSizeField(Take(last.rx, 12))
         /\ Len(last.reply) = HeaderSizeField(Take(last.rx, 12))
    /\ stdout.n = (IF nconsumed > Requested THEN nconsumed - Requested ELSE 0)
    /\ message_type = IPC_TYPE_RUN_COMMAND => (stdout.n = 0 /\ stdout.line = << >>)

\* run_command under -i has read a reply with the longest payload, in short
\* reads, printed nothing and returned 0.
SuppressedReplyStillReadWitness ==
  /\ ignore_reply = 1 /\ message_type = IPC_TYPE_RUN_COMMAND
  /\ pc = "exit" /\ exit_status = 0
  /\ nsent = 1 /\ nconsumed = 1
  /\ last.ret = 0 /\ last.short /\ last.reply_size = MaxPayload
  /\ last.tags = { << "reply", 1 >> }
  /\ stdout.n = 0

\* ------------------------------------------- arguments, one at a time

\* The characters an argument is made of: a digit, the sign, the point, a
\* letter.
ArgChars == { "3", "-", ".", "a" }

\* Every string of those characters.
ArgTexts == SeqsUpTo(ArgChars, MaxArgLen)

\* main after option parsing, connected: -t run_command with the command name
\* "a" and one argument, or -t get_dwm_client with no argument or one.
InitArgs ==
  /\ message_type \in { IPC_TYPE_RUN_COMMAND, IPC_TYPE_GET_DWM_CLIENT }
  /\ ignore_reply = 0
  /\ monitor = 0
  /\ argv \in IF message_type = IPC_TYPE_RUN_COMMAND
             THEN { << << "a" >>, t >> : t \in ArgTexts }
             ELSE { << >> } \cup { << t >> : t \in ArgTexts }
  /\ pc = "dispatch"
  /\ caller = "main"
  /\ reader = "none"
  /\ buffer = << >>
  /\ nsent = 0
  /\ Untouched

NextArgs ==
  \/ MainUsageError
  \/ RunCommand
  \/ GetDwmClient
  \/ WriteSome

\* What main makes of its arguments, up to the request being written.
SpecArgs == InitArgs /\ [][NextArgs]_vars

\* run_command has built its request for the one argument argv[2].
ArgSent ==
  message_type = IPC_TYPE_RUN_COMMAND /\ Len(argv) = 2 /\ nsent = 1

\* The bytes of the one element of the "args" array in the request: what
\* lies between {"command":"a","args":[ and ]}.
SentArg ==
  LET payload == Drop(buffer, 12)
      before == Len(<<"{">> \o YSTR(Lit_command) \o <<":">> \o YSTR(argv[1]) \o <<",">>
                      \o YSTR(Lit_args) \o <<":">> \o <<"[">>)
  IN  SubSeq(payload, before + 1, Len(payload) - 2)

\* The kind of a JSON value by its text: a string starts with a double quote,
\* a floating-point number has a point, an integer has neither.
JsonKind(bytes) ==
  IF bytes # << >> /\ bytes[1] = 34 THEN "string"
  ELSE IF \E i \in 1..Len(bytes) : bytes[i] = 46 THEN "double"
  ELSE "integer"

\* The grammars as the specification words them.  A signed integer: '-'
\* only as the first character, every other character a digit ("-" alone is
\* none).  A float: digits, at most one '.', neither first nor last, at most
\* one '-', leading ("-" alone is none).
GrammarSignedInt(s) ==
  /\ \E i \in 1..Len(s) : isdigit(s[i])
  /\ \A i \in 1..Len(s) : isdigit(s[i]) \/ (i = 1 /\ s[i] = "-")

GrammarFloat(s) ==
  /\ \E i \in 1..Len(s) : isdigit(s[i])
  /\ \A i \in 1..Len(s) :
       \/ isdigit(s[i])
       \/ i = 1 /\ s[i] = "-"
       \/ s[i] = "." /\ i # 1 /\ i # Len(s)
  /\ Cardinality({ i \in 1..Len(s) : s[i] = "." }) <= 1

\* C14.  Argument classification.  For every non-empty argument, the element
\* run_command puts into the "args" array is an integer, the argument's own
\* digits, exactly when the argument is a signed integer; otherwise a
\* floating-point number exactly when the argument is a float; otherwise the
\* argument as a string, verbatim.  ("-" alone is a string.)
ArgumentClassified ==
  (ArgSent /\ argv[2] # << >>) =>
    IF GrammarSignedInt(argv[2])
    THEN JsonKind(SentArg) = "integer" /\ SentArg = StrBytes(argv[2])
    ELSE IF GrammarFloat(argv[2])
    THEN JsonKind(SentArg) = "double"
    ELSE SentArg = << 34 >> \o StrBytes(argv[2]) \o << 34 >>

\* C15.  Zero-argument queries.  get_monitors, get_tags and get_layouts call
\* send_message once at most, and the message is 13 bytes: the magic, the
\* length 1 (little-endian, not 0), the type (1, 2, 3 respectively), and one
\* payload byte; the bytes on the wire are a prefix of it, and the whole of it
\* once write_socket has finished.
QuerySendsOneByte ==
  message_type \in { 1, 2, 3 } =>
    /\ nsent <= 1
    /\ nsent = 0 => wire_out = << >>
    /\ nsent = 1 =>
         /\ Len(buffer) = 13
         /\ Take(buffer, 7) = <<68, 87, 77, 45, 73, 80, 67>>
         /\ SubSeq(buffer, 8, 11) = << 1, 0, 0, 0 >>
         /\ buffer[12] = message_type
         /\ message_type = IPC_TYPE_GET_MONITORS => buffer[12] = 1
         /\ message_type = IPC_TYPE_GET_TAGS => buffer[12] = 2
         /\ message_type = IPC_TYPE_GET_LAYOUTS => buffer[12] = 3
         /\ wire_out = Take(buffer, Len(wire_out))
         /\ ncomplete = 1 => wire_out = buffer

\* get_tags has written its whole request.
QuerySendsOneByteWitness ==
  /\ message_type = IPC_TYPE_GET_TAGS
  /\ nsent = 1 /\ ncomplete = 1
  /\ Len(wire_out) = 13
  /\ wire_out[12] = 2

\* ------------------------------------------- a stream of queued messages

\* The messages of the stream specification: events with each payload.
StreamMessages == { SendMessageBytes(IPC_TYPE_EVENT, Len(p), p) : p \in Payloads }

\* The bytes of the messages of ms, one behind the other.
RECURSIVE Concat(_)
Concat(ms) == IF ms = << >> THEN << >> ELSE Head(ms) \o Concat(Tail(ms))

\* For each byte of Concat(ms): the message it belongs to, counted from k,
\* and its place in it.
RECURSIVE ConcatTags(_, _)
ConcatTags(ms, k) ==
  IF ms = << >> THEN << >>
  ELSE [i \in 1..Len(Head(ms)) |-> << "event", k, i >>] \o ConcatTags(Tail(ms), k + 1)

\* main is in its do-while loop under -m, about to call recv_message, and
\* the peer has written a number of messages that wait in the socket.
InitStream ==
  /\ message_type = IPC_TYPE_SUBSCRIBE
  /\ ignore_reply = 0
  /\ monitor = 1
  /\ argv = << << "a" >> >>
  /\ pc = "recv_header"
  /\ caller = "main"
  /\ reader = "print"
  /\ buffer = << >>
  /\ nsent = 0
  /\ exit_status = -1
  /\ exit_cause = "none"
  /\ j = 1
  /\ written = 0
  /\ wret = 0
  /\ header = << >>
  /\ read_bytes = 0
  /\ reply_size = 0
  /\ msg_type = 0
  /\ reply = << >>
  /\ reply_state = "none"
  /\ stdout = [ n |-> 0, line |-> << >> ]
  /\ \E ms \in SeqsUpTo(StreamMessages, MaxMsgs) :
       /\ sock_in = Concat(ms)
       /\ sock_tag = ConcatTags(ms, 1)
       /\ srv_events = Len(ms)
  /\ wire_out = << >>
  /\ peer_closed = FALSE
  /\ srv_replied = 0
  /\ srv_bad = FALSE
  /\ ncomplete = 0
  /\ nconsumed = 0
  /\ nfail = 0
  /\ rx_call = << >>
  /\ rx_tags = {}
  /\ rx_start = 0
  /\ rx_short = FALSE
  /\ last = NoLast

NextStream ==
  \/ ReadHeaderSome
  \/ ReadPayloadSome

\* recv_message called again and again on a stream of queued messages, every
\* read(2) delivering some of the bytes asked for.
SpecStream == InitStream /\ [][NextStream]_vars

\* C16.  Framing stays synchronised.  On a stream of well-formed messages
\* the n-th call of recv_message returns 0 and the n-th message: the bytes
\* it took are those of message n alone, from its first byte on, 12 and the
\* declared length in number, and they are the header and payload of the type,
\* size and payload returned; and whenever a call begins, the next byte of the
\* stream is the first byte of the next message.
FramingStaysSynchronised ==
  /\ last.n > 0 =>
       /\ last.ret = 0
       /\ last.tags = { << "event", last.n >> }
       /\ last.start = 0
       /\ Len(last.rx) = 12 + last.reply_size
       /\ last.rx = Take(last.rx, 7) \o U32Bytes(last.reply_size) \o << last.msg_type >>
                      \o last.reply
       /\ Take(last.rx, 7) = <<68, 87, 77, 45, 73, 80, 67>>
  /\ (pc = "recv_header" /\ read_bytes = 0 /\ sock_in # << >>) =>
       sock_tag[1] = << "event", last.n + 1, 1 >>
  /\ nconsumed = last.n

\* The last of the queued messages, one without payload, was returned by a
\* call that read its header in pieces, after a message with the longest
\* payload.
FramingStaysSynchronisedWitness ==
  /\ last.n = MaxMsgs /\ last.ret = 0
  /\ last.reply_size = 0 /\ last.short
  /\ stdout.n = MaxMsgs
  /\ sock_in = << >>

\* ------------------------------------------------------ write exactness

\* write_socket has returned its count for the latest message.
WriteSucceeded == wret > 0

\* C17.  Write exactness.  Once write_socket has returned successfully, the
\* count it returned is the count asked for, the bytes the peer received last
\* are the bytes of the buffer, each once and in order, nothing but whole
\* messages went before them, and the buffer is the 12-byte header of the
\* message followed by the payload the header declares.
WriteExact ==
  WriteSucceeded =>
    /\ wret = Len(buffer)
    /\ written = Len(buffer)
    /\ Len(wire_out) >= Len(buffer)
    /\ Drop(wire_out, Len(wire_out) - Len(buffer)) = buffer
    /\ ncomplete = 1 => wire_out = buffer
    /\ Len(buffer) = 12 + U32Value(SubSeq(buffer, 8, 11))
    /\ Take(buffer, 7) = <<68, 87, 77, 45, 73, 80, 67>>
    /\ buffer[12] = message_type

\* write_socket returned the whole count of the first message after a write
\* that failed with a transient errno, and the client waits for the reply.
WriteExactWitness ==
  /\ WriteSucceeded
  /\ ncomplete = 1 /\ nfail = 1
  /\ pc = "recv_header" /\ read_bytes = 0
  /\ sock_in = << >> /\ ~peer_closed
  /\ last.n = 0

\* ----------------------------------------------------- buffer ownership

\* C18.  Payload buffer ownership.  A call of recv_message that fails in the
\* header stage allocates nothing and nothing is freed; a call that allocated
\* did so behind a whole header with the magic, its buffer never holds more
\* than the declared length, and it is freed once: by recv_message when the
\* call failed, by the caller, who gets it live and full, when the call
\* returned 0.  Over all calls as many buffers were freed as allocated.
BufferOwnership ==
  /\ last.n > 0 =>
       /\ last.alloc => (Len(last.rx) >= 12 /\ MagicMatches(last.header))
       /\ (Len(last.rx) < 12 \/ ~MagicMatches(last.header)) => ~last.alloc
       /\ last.alloc => last.nfree = 1
       /\ ~last.alloc => (last.nfree = 0 /\ ~last.freed /\ last.ret < 0)
       /\ last.ret = 0 =>
            (last.alloc /\ ~last.freed /\ Len(last.reply) = last.reply_size)
       /\ (last.ret < 0 /\ last.alloc) => last.freed
       /\ Len(last.reply) <= last.reply_size
  /\ last.allocs = last.frees
  /\ reply_state = "live" => (pc = "recv_payload" /\ Len(reply) < reply_size)
  /\ Len(reply) <= reply_size

\* After a call that returned a payload to its caller, a later call
\* allocated a buffer, read it in pieces and freed it on a failure of the
\* payload stage.
BufferOwnershipWitness ==
  /\ last.allocs = 2 /\ last.frees = 2
  /\ last.ret < 0 /\ last.alloc /\ last.freed
  /\ last.short /\ Len(last.reply) >= 1

\* ------------------------------------------------- the empty argument

\* C19.  Empty-string argument.  A run_command argument that is the empty
\* string is put into the "args" array as the empty JSON string, the two
\* bytes "".
EmptyArgIsString ==
  (ArgSent /\ argv[2] = << >>) => SentArg = << 34, 34 >>

\* ------------------------------------------------ the window id argument

\* An unsigned-integer string as the specification words it: one or more
\* decimal digits and nothing else.
GrammarUnsignedInt(s) ==
  /\ Len(s) >= 1
  /\ \A i \in 1..Len(s) : isdigit(s[i])

\* C20.  Window-id validation.  A get_dwm_client message is built and sent
\* only when the window id argument is an unsigned-integer string; with any
\* other argument, the empty string among them, or with none, main ends in
\* usage_error and nothing is written to the connection.
WindowIdValidated ==
  message_type = IPC_TYPE_GET_DWM_CLIENT =>
    IF Len(argv) >= 1 /\ GrammarUnsignedInt(argv[1])
    THEN exit_cause # "usage"
    ELSE /\ nsent = 0
         /\ buffer = << >>
         /\ wire_out = << >>
         /\ pc # "dispatch" => exit_cause = "usage"

====
